---- MODULE Spec2Model ----
(***************************************************************************)
(* get_non_ignored_files of compress.py: the directory -> rules index, the *)
(* ancestor walk of is_ignored and the selection of the files handed to    *)
(* the archiver.  Paths, file names and pattern lines are strings, kept    *)
(* here as sequences of one-character strings so that os.path.dirname,     *)
(* os.path.join, os.path.relpath, the string comparison `>=` and the       *)
(* gitwildmatch translation act on them as they do on Python strings.      *)
(***************************************************************************)
EXTENDS Integers, Sequences, FiniteSets, TLC

VARIABLES
    fs_dirs,        \* the directories of the file system (absolute paths)
    fs_files,       \* file path -> its lines (a rule file's patterns)
    fs_unreadable,  \* directories whose enumeration fails (permission denied)
    fs_order,       \* the order directories list their entries in
    base_path_str,  \* str(base_path)
    pc,             \* "index" | "filter" | "climb" | "done"
    run,            \* "first" | "second": which call of get_non_ignored_files
    dir_to_spec,    \* directory -> compiled PathSpec
    walk,           \* os.walk's pending directories, next first
    root,           \* the directory the second os.walk loop is in
    files,          \* the files of root not handled yet
    path,           \* is_ignored's argument
    current_dir,    \* is_ignored's loop variable
    visited,        \* the directories is_ignored tested for the current file
    all_files,      \* the result list
    prev_files,     \* what the previous call returned
    edited,         \* directories whose rule file changed between two calls
    fs0,            \* the files of the tree when the current call started
    surfaced        \* traversal failures reported to the caller

vars == <<fs_dirs, fs_files, fs_unreadable, fs_order, base_path_str, pc, run, dir_to_spec,
          walk, root, files, path, current_dir, visited, all_files, prev_files,
          edited, fs0, surfaced>>

(***************************************************************************)
(* Bounds of the model.                                                    *)
(***************************************************************************)
MaxRuleFiles == 2   \* rule files present in the initial tree
MaxVisit == 5       \* iterations of is_ignored's loop followed per file

(***************************************************************************)
(* Strings.                                                                *)
(***************************************************************************)
Ord(c) ==
    CASE c = "!" -> 33 [] c = "#" -> 35 [] c = "*" -> 42 [] c = "." -> 46
      [] c = "/" -> 47 [] c = "?" -> 63 [] c = "b" -> 98 [] c = "d" -> 100
      [] c = "e" -> 101 [] c = "g" -> 103 [] c = "k" -> 107 [] c = "o" -> 111
      [] c = "s" -> 115 [] c = "x" -> 120

RECURSIVE StrLT(_, _)
StrLT(a, b) ==
    IF b = <<>> THEN FALSE
    ELSE IF a = <<>> THEN TRUE
    ELSE IF Ord(Head(a)) < Ord(Head(b)) THEN TRUE
    ELSE IF Ord(Head(a)) > Ord(Head(b)) THEN FALSE
    ELSE StrLT(Tail(a), Tail(b))

StrGE(a, b) == ~StrLT(a, b)

Range(s) == {s[i] : i \in 1..Len(s)}

\* str.split("/"): empty pieces are kept
RECURSIVE SplitFrom(_, _, _)
SplitFrom(s, i, piece) ==
    IF i > Len(s) THEN <<piece>>
    ELSE IF s[i] = "/" THEN <<piece>> \o SplitFrom(s, i + 1, <<>>)
    ELSE SplitFrom(s, i + 1, Append(piece, s[i]))

StrSplit(s) == SplitFrom(s, 1, <<>>)

\* the non-empty components of a path
Components(s) == SelectSeq(StrSplit(s), LAMBDA x : x # <<>>)

RECURSIVE StrJoin(_)
StrJoin(segs) ==
    IF segs = <<>> THEN <<>>
    ELSE IF Len(segs) = 1 THEN segs[1]
    ELSE segs[1] \o <<"/">> \o StrJoin(Tail(segs))

\* posixpath.dirname
dirname(p) ==
    LET slashes == {k \in 1..Len(p) : p[k] = "/"}
        i == IF slashes = {} THEN 0
             ELSE CHOOSE k \in slashes : \A m \in slashes : m <= k
        head == SubSeq(p, 1, i)
        keep == {k \in 1..Len(head) : head[k] # "/"}
    IN  IF keep = {} THEN head
        ELSE SubSeq(head, 1, CHOOSE k \in keep : \A m \in keep : m <= k)

\* posixpath.basename
basename(p) == LET segs == StrSplit(p) IN segs[Len(segs)]

\* posixpath.join of two parts
join(a, b) ==
    IF b # <<>> /\ Head(b) = "/" THEN b
    ELSE IF a = <<>> \/ a[Len(a)] = "/" THEN a \o b
    ELSE a \o <<"/">> \o b

\* posixpath.relpath of two absolute, normalised paths
relpath(p, start) ==
    LET sl == Components(start)
        pl == Components(p)
        common == {k \in 0..Len(sl) :
                      k <= Len(pl) /\ \A m \in 1..k : sl[m] = pl[m]}
        i == CHOOSE k \in common : \A m \in common : m <= k
        ups == [m \in 1..(Len(sl) - i) |-> <<".", ".">>]
        rel == ups \o SubSeq(pl, i + 1, Len(pl))
    IN  IF rel = <<>> THEN <<".">> ELSE StrJoin(rel)

(***************************************************************************)
(* pathspec: PathSpec.from_lines("gitwildmatch", lines) and match_file.    *)
(***************************************************************************)
StarStar == <<"*", "*">>

\* GitWildMatchPattern: one line to (include, segments); include "none" for
\* a blank line or a comment
CompilePattern(line) ==
    IF line = <<>> \/ Head(line) = "#" \/ line = <<"/">>
    THEN [include |-> "none", segs |-> <<>>]
    ELSE
      LET neg == Head(line) = "!"
          body == IF neg THEN Tail(line) ELSE line
          raw == StrSplit(body)
          anchored ==
              IF raw[1] = <<>> THEN Tail(raw)
              ELSE IF (Len(raw) = 1 \/ (Len(raw) = 2 /\ raw[2] = <<>>))
                      /\ raw[1] # StarStar
                   THEN <<StarStar>> \o raw
              ELSE raw
          segs == IF Len(anchored) > 1 /\ anchored[Len(anchored)] = <<>>
                  THEN SubSeq(anchored, 1, Len(anchored) - 1) \o <<StarStar>>
                  ELSE anchored
      IN  [include |-> IF neg THEN "no" ELSE "yes", segs |-> segs]

from_lines(lines) == [i \in 1..Len(lines) |-> CompilePattern(lines[i])]

\* one pattern segment against one path component: * and ? never cross "/"
RECURSIVE Glob(_, _)
Glob(p, s) ==
    IF p = <<>> THEN s = <<>>
    ELSE IF Head(p) = "*"
         THEN Glob(Tail(p), s) \/ (s # <<>> /\ Glob(p, Tail(s)))
    ELSE IF Head(p) = "?" THEN s # <<>> /\ Glob(Tail(p), Tail(s))
    ELSE s # <<>> /\ Head(s) = Head(p) /\ Glob(Tail(p), Tail(s))

\* the regular expression built from the segments, on the path's components:
\* a leading ** is (?:.+/)?, a trailing ** is /.*, an inner ** is (?:/.+)?,
\* and a last plain segment also matches everything beneath it
RECURSIVE MatchSegs(_, _, _, _)
MatchSegs(ps, i, fsegs, j) ==
    IF i > Len(ps) THEN j > Len(fsegs)
    ELSE IF ps[i] = StarStar
         THEN IF i = 1 /\ i = Len(ps) THEN Len(fsegs) >= 1
              ELSE IF i = Len(ps) THEN j <= Len(fsegs)
              ELSE \E k \in j..(Len(fsegs) + 1) : MatchSegs(ps, i + 1, fsegs, k)
    ELSE /\ j <= Len(fsegs)
         /\ Glob(ps[i], fsegs[j])
         /\ (i = Len(ps) \/ MatchSegs(ps, i + 1, fsegs, j + 1))

PatternMatches(pat, file) ==
    pat.include # "none" /\ MatchSegs(pat.segs, 1, Components(file), 1)

\* PathSpec.match_file: the last pattern that matches decides
RECURSIVE match_file(_, _)
match_file(spec, file) ==
    IF spec = <<>> THEN FALSE
    ELSE LET last == spec[Len(spec)]
         IN  IF PatternMatches(last, file) THEN last.include = "yes"
             ELSE match_file(SubSeq(spec, 1, Len(spec) - 1), file)

(***************************************************************************)
(* The file system and os.walk.                                            *)
(***************************************************************************)
exists(p) == p \in fs_dirs \/ p \in DOMAIN fs_files

RECURSIVE Sorted(_)
Sorted(S) ==
    IF S = {} THEN <<>>
    ELSE LET m == CHOOSE x \in S : \A y \in S : x = y \/ StrLT(x, y)
         IN  <<m>> \o Sorted(S \ {m})

Reverse(s) == [i \in 1..Len(s) |-> s[Len(s) + 1 - i]]

\* os.scandir yields a directory's names in the directory's own order, which
\* no call of the program changes
Listing(S) == IF fs_order = "asc" THEN Sorted(S) ELSE Reverse(Sorted(S))

\* os.scandir(top), split as os.walk splits it
SubDirsOf(top) ==
    Listing({basename(d) : d \in {x \in fs_dirs : x # top /\ dirname(x) = top}})

FilesOf(top) ==
    Listing({basename(f) : f \in {x \in DOMAIN fs_files : dirname(x) = top}})

\* os.walk's onerror is None: a failing scandir is dropped
OnError(reported, dir) == reported

\* one step of the os.walk generator: the pending list after `top`
WalkAfter(pending, top) ==
    IF top \in fs_unreadable THEN Tail(pending)
    ELSE LET dirs == SubDirsOf(top)
         IN  [i \in 1..Len(dirs) |-> join(top, dirs[i])] \o Tail(pending)

(***************************************************************************)
(* The trees the model starts from.                                        *)
(***************************************************************************)
ignore_filename == <<".", "g">>

Root == <<"/">>
Sub == <<"/", "b">>

TreeDirs(base) ==
    {base, join(base, <<"d">>), join(join(base, <<"d">>), <<"s">>),
     join(base, <<"e">>)}

TreeFiles(base) ==
    {join(base, <<"o", ".", "x">>),
     join(join(base, <<"d">>), <<"k", ".", "x">>),
     join(join(base, <<"d">>), <<"o", ".", "x">>),
     join(join(join(base, <<"d">>), <<"s">>), <<"k", ".", "x">>),
     join(join(base, <<"e">>), <<"k", ".", "x">>)}

RuleTexts ==
    { << <<"*", ".", "x">> >>,
      << <<"*", ".", "x">>, <<"!", "k", ".", "x">> >>,
      << <<"!", "k", ".", "x">> >>,
      << <<"d", "/", "*", "*">>, <<"!", "d", "/", "k", ".", "x">> >>,
      << <<"*">> >> }

RuleFilePath(d) == join(d, ignore_filename)

MakeFiles(base, rules) ==
    [p \in TreeFiles(base) \cup {RuleFilePath(d) : d \in DOMAIN rules} |->
        IF p \in TreeFiles(base) THEN <<>>
        ELSE rules[CHOOSE d \in DOMAIN rules : RuleFilePath(d) = p]]

InitTree ==
    \E base \in {Root, Sub} :
    \E owners \in SUBSET TreeDirs(base) :
        /\ Cardinality(owners) <= MaxRuleFiles
        /\ \E rules \in [owners -> RuleTexts] :
            /\ base_path_str = base
            /\ fs_dirs = TreeDirs(base)
            /\ fs_files = MakeFiles(base, rules)
            /\ fs0 = MakeFiles(base, rules)
            /\ fs_order \in {"asc", "desc"}

(***************************************************************************)
(* get_non_ignored_files.                                                  *)
(***************************************************************************)
\* (variant: the result list outlives the call, as a module-level list would)
KeepList(old) == old

\* all_files = [] at the start of a call
StartList(old) == <<>>

\* load_gitignore_rules
load_gitignore_rules(ignore_file) ==
    IF ~exists(ignore_file) THEN from_lines(<<>>)
    ELSE from_lines(fs_files[ignore_file])

\* (variant: the second loop starts while the first is still walking)
IndexNotAwaited == TRUE

\* the first loop has run to its end
IndexFinished == walk = <<>>

\* while current_dir >= base_path_str
InBase(dir) == StrGE(dir, base_path_str)

\* (variant: every rule file of the tree is consulted, wherever it lies)
AnySpecSays(dts, dir, p) ==
    \E d \in DOMAIN dts : match_file(dts[d], relpath(p, dir))

\* current_dir in dir_to_spec and dir_to_spec[current_dir].match_file(rel_path)
SpecSays(dts, dir, p) ==
    dir \in DOMAIN dts /\ match_file(dts[dir], relpath(p, dir))

\* (variant: the loop stops after the file's own directory)
NoParent(dir) == <<>>

\* current_dir = os.path.dirname(current_dir)
ParentOf(dir) == dirname(dir)

\* (variant: a file no rule matches is ignored)
AlwaysIgnored == TRUE

\* is_ignored's result when the loop ends without a match
NoMatchVerdict == FALSE

\* (variant: the rule file is filtered like any other file)
NeverRuleFile(file) == FALSE

\* file == ignore_filename
IsRuleFile(file) == file = ignore_filename

CallStart ==
    /\ pc = "index"
    /\ dir_to_spec = <<>>
    /\ walk = <<base_path_str>>
    /\ root = <<>>
    /\ files = <<>>
    /\ path = <<>>
    /\ current_dir = <<>>
    /\ visited = <<>>

InitRest ==
    /\ CallStart
    /\ run = "first"
    /\ all_files = StartList(<<>>)
    /\ prev_files = <<>>
    /\ edited = {}
    /\ surfaced = {}

Init == InitTree /\ fs_unreadable = {} /\ InitRest

InitFault ==
    /\ InitTree
    /\ fs_unreadable \in {{d} : d \in TreeDirs(base_path_str) \ {base_path_str}}
    /\ InitRest

\* one iteration of `for root, dirs, files in os.walk(base_path_str)`, first loop
IndexStep ==
    /\ pc = "index"
    /\ walk # <<>>
    /\ LET top == Head(walk)
           ignore_file == join(top, ignore_filename)
       IN  /\ walk' = WalkAfter(walk, top)
           /\ IF top \in fs_unreadable
              THEN /\ surfaced' = OnError(surfaced, top)
                   /\ dir_to_spec' = dir_to_spec
              ELSE /\ surfaced' = surfaced
                   /\ dir_to_spec' =
                        IF exists(ignore_file)
                        THEN (top :> load_gitignore_rules(ignore_file)) @@ dir_to_spec
                        ELSE dir_to_spec
    /\ UNCHANGED <<fs_dirs, fs_files, fs_unreadable, fs_order, base_path_str, pc, run, root,
                   files, path, current_dir, visited, all_files, prev_files,
                   edited, fs0>>

\* the first loop ends and the second os.walk starts
IndexDone ==
    /\ pc = "index"
    /\ IndexFinished
    /\ pc' = "filter"
    /\ walk' = <<base_path_str>>
    /\ UNCHANGED <<fs_dirs, fs_files, fs_unreadable, fs_order, base_path_str, run,
                   dir_to_spec, root, files, path, current_dir, visited,
                   all_files, prev_files, edited, fs0, surfaced>>

\* the second os.walk yields its next directory
WalkRoot ==
    /\ pc = "filter"
    /\ files = <<>>
    /\ walk # <<>>
    /\ LET top == Head(walk)
       IN  /\ walk' = WalkAfter(walk, top)
           /\ root' = top
           /\ files' = IF top \in fs_unreadable THEN <<>> ELSE FilesOf(top)
           /\ surfaced' = IF top \in fs_unreadable THEN OnError(surfaced, top)
                          ELSE surfaced
    /\ UNCHANGED <<fs_dirs, fs_files, fs_unreadable, fs_order, base_path_str, pc, run,
                   dir_to_spec, path, current_dir, visited, all_files,
                   prev_files, edited, fs0>>

\* the file is decided: appended when it is not ignored
Emit(ignored) ==
    /\ pc' = "filter"
    /\ files' = Tail(files)
    /\ all_files' = IF ignored THEN all_files
                    ELSE Append(all_files,
                                relpath(join(root, Head(files)), base_path_str))
    /\ path' = <<>>
    /\ current_dir' = <<>>
    /\ visited' = <<>>

\* `for file in files`: the rule file is taken at once, any other file
\* enters is_ignored
NextFile ==
    /\ pc = "filter"
    /\ files # <<>>
    /\ IF IsRuleFile(Head(files))
       THEN Emit(FALSE)
       ELSE /\ pc' = "climb"
            /\ path' = join(root, Head(files))
            /\ current_dir' = dirname(join(root, Head(files)))
            /\ visited' = <<>>
            /\ UNCHANGED <<files, all_files>>
    /\ UNCHANGED <<fs_dirs, fs_files, fs_unreadable, fs_order, base_path_str, run,
                   dir_to_spec, walk, root, prev_files, edited, fs0, surfaced>>

\* one test of is_ignored's while condition, and one iteration when it holds
ClimbStep ==
    /\ pc = "climb"
    /\ Len(visited) < MaxVisit
    /\ IF ~InBase(current_dir)
       THEN Emit(NoMatchVerdict)
       ELSE IF SpecSays(dir_to_spec, current_dir, path)
       THEN Emit(TRUE)
       ELSE /\ current_dir' = ParentOf(current_dir)
            /\ visited' = Append(visited, current_dir)
            /\ UNCHANGED <<pc, files, all_files, path>>
    /\ UNCHANGED <<fs_dirs, fs_files, fs_unreadable, fs_order, base_path_str, run,
                   dir_to_spec, walk, root, prev_files, edited, fs0, surfaced>>

\* return all_files
Return ==
    /\ pc = "filter"
    /\ files = <<>>
    /\ walk = <<>>
    /\ pc' = "done"
    /\ UNCHANGED <<fs_dirs, fs_files, fs_unreadable, fs_order, base_path_str, run,
                   dir_to_spec, walk, root, files, path, current_dir, visited,
                   all_files, prev_files, edited, fs0, surfaced>>

\* what a second call starts from
CallAgain ==
    /\ pc = "done"
    /\ run = "first"
    /\ run' = "second"
    /\ prev_files' = all_files
    /\ all_files' = StartList(all_files)
    /\ pc' = "index"
    /\ dir_to_spec' = <<>>
    /\ walk' = <<base_path_str>>
    /\ root' = <<>>
    /\ UNCHANGED <<fs_dirs, fs_unreadable, fs_order, base_path_str, files, path,
                   current_dir, visited, surfaced>>

\* the caller calls get_non_ignored_files again on the unmodified tree
RunAgain ==
    /\ CallAgain
    /\ UNCHANGED <<fs_files, fs0, edited>>

\* one rule file is written, rewritten or removed, and then the caller calls
\* get_non_ignored_files again
EditAndRunAgain ==
    /\ CallAgain
    /\ \E d \in fs_dirs :
        LET p == RuleFilePath(d)
            others == [q \in DOMAIN fs_files \ {p} |-> fs_files[q]]
        IN  /\ edited' = {d}
            /\ \/ /\ p \in DOMAIN fs_files
                  /\ fs_files' = others
                  /\ fs0' = others
               \/ \E text \in RuleTexts :
                     /\ ~(p \in DOMAIN fs_files /\ fs_files[p] = text)
                     /\ fs_files' = (p :> text) @@ others
                     /\ fs0' = (p :> text) @@ others

Next ==
    \/ IndexStep
    \/ IndexDone
    \/ WalkRoot
    \/ NextFile
    \/ ClimbStep
    \/ Return
    \/ RunAgain
    \/ EditAndRunAgain

Spec == Init /\ [][Next]_vars

SpecFault == InitFault /\ [][Next]_vars

\* one call of get_non_ignored_files
NextOneCall ==
    \/ IndexStep
    \/ IndexDone
    \/ WalkRoot
    \/ NextFile
    \/ ClimbStep
    \/ Return

SpecOneCall == Init /\ [][NextOneCall]_vars

(***************************************************************************)
(* What the properties speak of: the tree's rule files read directly, not  *)
(* through the index and the loop of the program.                          *)
(***************************************************************************)
Output == Range(all_files)

Rel(f) == relpath(f, base_path_str)

IsRuleNamed(f) == basename(f) = ignore_filename

Depth(d) == Len(Components(d))

\* directory d is f's parent or lies above it
Holds(d, f) ==
    /\ Depth(d) < Depth(f)
    /\ SubSeq(Components(f), 1, Depth(d)) = Components(d)

HasRuleFile(d) == RuleFilePath(d) \in DOMAIN fs_files

Rules(d) == IF HasRuleFile(d) THEN from_lines(fs_files[RuleFilePath(d)]) ELSE <<>>

\* the patterns of f's resolution chain that match f: <<directory, line>>
Hits(f) ==
    UNION {LET rules == Rules(d)
               rel == relpath(f, d)
           IN  {<<d, i>> : i \in {k \in 1..Len(rules) :
                                     PatternMatches(rules[k], rel)}} :
           d \in {x \in fs_dirs : HasRuleFile(x) /\ Holds(x, f)}}

Negated(h) == Rules(h[1])[h[2]].include = "no"

\* of a set of hits, the exclusions and the negations
Excluding(hits) == {h \in hits : ~Negated(h)}

Including(hits) == {h \in hits : Negated(h)}

\* h1 comes before h2 in the chain: root-most rule file first, then line order
Later(h1, h2) ==
    \/ Depth(h1[1]) < Depth(h2[1])
    \/ h1[1] = h2[1] /\ h1[2] < h2[2]

\* the traversal can reach directory d
Reachable(d) ==
    d \notin fs_unreadable /\ \A a \in fs_dirs : Holds(a, d) => a \notin fs_unreadable

\* C1: a file whose last matching pattern in its chain is a negation that
\* follows a matching exclusion (in the same rule file or in a deeper one) is
\* in the output, and a file matched by exclusions only is not
NegationOverride ==
    pc = "done" =>
        \A f \in DOMAIN fs_files :
            LET hits == Hits(f)
            IN  /\ (\E n \in Including(hits) :
                        /\ Excluding(hits) # {}
                        /\ \A e \in Excluding(hits) : Later(e, n))
                   => Rel(f) \in Output
                /\ (/\ Excluding(hits) # {}
                    /\ Including(hits) = {}
                    /\ ~IsRuleNamed(f))
                   => Rel(f) \notin Output

\* pattern pat is `name/**`, not negated
ExcludesDir(pat) ==
    /\ pat.include = "yes"
    /\ Len(pat.segs) = 2
    /\ pat.segs[2] = StarStar
    /\ pat.segs[1] # StarStar

\* C2: where a rule file holds `dir/**` and later a negation that matches a
\* file inside dir and not dir itself, no file under dir is in the output
\* (the rule files themselves are left to C4)
DirExclusionDominance ==
    pc = "done" =>
        \A a \in {x \in fs_dirs : HasRuleFile(x)} :
        \A i \in 1..Len(Rules(a)) : \A j \in (i + 1)..Len(Rules(a)) :
            LET excl == Rules(a)[i]
                negn == Rules(a)[j]
                dir == join(a, excl.segs[1])
            IN  (/\ ExcludesDir(excl)
                 /\ negn.include = "no"
                 /\ ~PatternMatches(negn, excl.segs[1])
                 /\ \E g \in DOMAIN fs_files :
                        Holds(dir, g) /\ PatternMatches(negn, relpath(g, a)))
                => \A f \in DOMAIN fs_files :
                        (Holds(dir, f) /\ ~IsRuleNamed(f)) => Rel(f) \notin Output

\* C3: a file that no pattern of any rule file of its ancestors matches is in
\* the output
DefaultInclude ==
    pc = "done" =>
        \A f \in DOMAIN fs_files : Hits(f) = {} => Rel(f) \in Output

DefaultIncludeWitness ==
    /\ pc = "done"
    /\ \E f \in DOMAIN fs_files :
        /\ ~IsRuleNamed(f)
        /\ \E d \in fs_dirs : Holds(d, f) /\ HasRuleFile(d)
        /\ Hits(f) = {}
        /\ Rel(f) \in Output
    /\ \E g \in DOMAIN fs_files : Rel(g) \notin Output

\* C4 as stated: a file named like the rule file that a pattern excludes, with
\* no later negation, is not in the output
RuleFileLikeAnyOther ==
    pc = "done" =>
        \A f \in DOMAIN fs_files :
            (/\ IsRuleNamed(f)
             /\ LET hits == Hits(f)
                IN  \E e \in Excluding(hits) :
                        \A n \in Including(hits) : ~Later(e, n))
            => Rel(f) \notin Output

\* C4: every file named like the rule file is in the output, whatever the
\* rules say of it
RuleFileAlwaysIncluded ==
    pc = "done" =>
        \A f \in DOMAIN fs_files : IsRuleNamed(f) => Rel(f) \in Output

RuleFileAlwaysIncludedWitness ==
    /\ pc = "done"
    /\ \E f \in DOMAIN fs_files :
        /\ IsRuleNamed(f)
        /\ Excluding(Hits(f)) # {}
        /\ Including(Hits(f)) = {}
        /\ Rel(f) \in Output

\* C5 as stated: any file that an ancestor's exclusion matches, and no
\* negation of its chain matches, is not in the output
AncestorRulesReachAll ==
    pc = "done" =>
        \A f \in DOMAIN fs_files :
            LET hits == Hits(f)
            IN  (Excluding(hits) # {} /\ Including(hits) = {})
                => Rel(f) \notin Output

\* C5: a file not named like the rule file that an exclusion of any ancestor's
\* rule file matches, and no negation of its chain matches, is not in the
\* output, however far above the file the rule file lies
AncestorRulesReach ==
    pc = "done" =>
        \A f \in {x \in DOMAIN fs_files : ~IsRuleNamed(x)} :
            LET hits == Hits(f)
            IN  (Excluding(hits) # {} /\ Including(hits) = {})
                => Rel(f) \notin Output

AncestorRulesReachWitness ==
    /\ pc = "done"
    /\ \E f \in {x \in DOMAIN fs_files : ~IsRuleNamed(x)} :
        /\ Including(Hits(f)) = {}
        /\ Excluding(Hits(f)) # {}
        /\ \A e \in Excluding(Hits(f)) : Depth(e[1]) + 2 <= Depth(dirname(f))
        /\ Rel(f) \notin Output

\* C6: after the rule file of a directory changed, every file outside that
\* directory's subtree is in the output exactly if it was before
SubtreeScoping ==
    (pc = "done" /\ edited # {}) =>
        \A f \in DOMAIN fs_files :
            (\A d \in edited : ~Holds(d, f))
            => (Rel(f) \in Range(prev_files) <=> Rel(f) \in Output)

SubtreeScopingWitness ==
    /\ pc = "done"
    /\ edited # {}
    /\ \E f \in DOMAIN fs_files :
        /\ ~IsRuleNamed(f)
        /\ \E d \in edited : Holds(d, f)
        /\ ~(Rel(f) \in Range(prev_files) <=> Rel(f) \in Output)
    /\ \E g \in DOMAIN fs_files :
        /\ \A d \in edited : ~Holds(d, g)
        /\ Rel(g) \notin Output

Filtering == pc \in {"filter", "climb"}

\* C7: while files are being filtered the index holds the rules of every rule
\* file of the tree, and no step of the filtering changes it
IndexBeforeFilter ==
    /\ [](Filtering =>
            /\ DOMAIN dir_to_spec = {d \in fs_dirs : Reachable(d) /\ HasRuleFile(d)}
            /\ \A d \in DOMAIN dir_to_spec : dir_to_spec[d] = Rules(d))
    /\ [][Filtering => dir_to_spec' = dir_to_spec]_vars

IndexBeforeFilterWitness ==
    /\ pc = "climb"
    /\ Cardinality(DOMAIN dir_to_spec) >= 2
    /\ all_files # <<>>

\* C8: no step of a call changes the tree, and a second call on the unmodified
\* tree returns the list the first call returned
Idempotent ==
    /\ fs_files = fs0
    /\ (pc = "done" /\ run = "second" /\ edited = {}) => all_files = prev_files

IdempotentWitness ==
    /\ pc = "done"
    /\ run = "second"
    /\ edited = {}
    /\ Len(all_files) >= 3
    /\ \E f \in DOMAIN fs_files : Rel(f) \notin Output

\* C9: a directory whose enumeration fails is reported to the caller, and the
\* files of the other subtrees are still resolved
TraversalErrorsSurfaced ==
    pc = "done" =>
        /\ \A d \in fs_unreadable : d \in surfaced
        /\ \A f \in DOMAIN fs_files :
            (Reachable(dirname(f)) /\ Hits(f) = {}) => Rel(f) \in Output

\* C10: is_ignored's loop tests no more directories than lie between the
\* file's parent and the base path, each of them at or below the base path
AncestorWalkEnds ==
    pc = "climb" =>
        /\ Len(visited) <= Depth(dirname(path)) - Depth(base_path_str) + 1
        /\ \A i \in 1..Len(visited) :
            visited[i] \in fs_dirs /\ Holds(visited[i], path)

====
